---- MODULE Spec2Model ----
(***************************************************************************)
(* Model of the AI Productivity Tracker: the scoring functions, the       *)
(* two-tier persistence of firebase-config.js (remote Firestore, local    *)
(* localStorage), the generate / page-load handlers of app.js and the     *)
(* fetch handling of the service worker sw.js.                            *)
(*                                                                         *)
(* Spec is the page; SpecScore, SpecColor and SpecDate run the scoring,   *)
(* color and date functions over their inputs; SpecFacade calls the       *)
(* persistence facade directly; SpecSw is the service worker.             *)
(*                                                                         *)
(* Time is counted in half days since the epoch (one unit = 12 hours).     *)
(* A date key is the number of the UTC day; a stored phase timestamp is    *)
(* the instant `now` at which it was taken.                                *)
(***************************************************************************)
EXTENDS Integers, Sequences, FiniteSets, TLC

(***************************************************************************)
(* Bounds of the model                                                     *)
(***************************************************************************)
\* last instant (half days) the clock reaches
MaxNow == 1
\* number of generate clicks that pass validation
MaxGenerates == 2
\* number of saveDailyData / fetchAllData calls in which an operation throws
MaxFaults == 1
\* the user only touches the controls of phases 1..MaxActivePhase
MaxActivePhase == 2
\* the user picks among the first MaxStatusChoice status options
MaxStatusChoice == 1
\* the user picks among the first MaxProductivityChoice productivity options
MaxProductivityChoice == 1

(***************************************************************************)
(* Program constants                                                       *)
(***************************************************************************)
\* collectPhaseData: for (let i = 1; i <= 5; i++)
NumPhases == 5
\* Math.min(100, ...)
MaxScore == 100
\* "Each task contributes max 20 points (10 status + 10 productivity)"
MaxPhasePoints == 20

Phases == 1..NumPhases

StatusOptions == <<"passed", "failed", "other-important-work", "intentionally-declined">>
ProductivityOptions == <<"highly-productive", "productive", "average", "below-average", "least-productive">>

\* a value that is in neither table (and names no inherited property of the
\* table objects)
UnknownValue == "unknown"

\* SCORING.status
SCORING_status == [s \in {StatusOptions[k] : k \in 1..Len(StatusOptions)} |->
                     IF s = "failed" THEN 0 ELSE 10]

\* SCORING.productivity
SCORING_productivity == [p \in {ProductivityOptions[k] : k \in 1..Len(ProductivityOptions)} |->
                           CASE p = "highly-productive" -> 10
                             [] p = "productive" -> 8
                             [] p = "average" -> 6
                             [] p = "below-average" -> 4
                             [] p = "least-productive" -> 2]

\* COLOR_MAPPING
COLOR_MAPPING == [k \in {0, 20, 40, 60, 80} |->
                    CASE k = 80 -> "#0c6111ff"
                      [] k = 60 -> "#349e39ff"
                      [] k = 40 -> "#3cd841ff"
                      [] k = 20 -> "#65cd68ff"
                      [] k = 0 -> "#E8F5E8"]

Min(a, b) == IF a < b THEN a ELSE b
Max(a, b) == IF a > b THEN a ELSE b

(***************************************************************************)
(* Scoring (app.js)                                                        *)
(***************************************************************************)
\* stands for a property a phase object does not have (its value is
\* undefined)
MissingValue == "<missing>"

\* what `if (value)` tests for a string or a missing property
Truthy(value) == value \notin {"", MissingValue}

\* SCORING.status[phase.status] || 0
StatusScore(status) ==
    IF status \in DOMAIN SCORING_status THEN SCORING_status[status] ELSE 0

\* a productivity table whose values are twice too large
ProductivityScoreDoubled(productivity) ==
    IF productivity \in DOMAIN SCORING_productivity
    THEN 2 * SCORING_productivity[productivity] ELSE 0

\* SCORING.productivity[phase.productivity] || 0
ProductivityScore(productivity) ==
    IF productivity \in DOMAIN SCORING_productivity
    THEN SCORING_productivity[productivity] ELSE 0

\* Math.min(100, Math.max(0, totalScore))
ClampScore(totalScore) == Min(MaxScore, Max(0, totalScore))

\* the body of the forEach with a test that skips a phase whose status is
\* not in the status table
PhaseDataPointsKnownStatusOnly(phase) ==
    IF phase.status \in DOMAIN SCORING_status
    THEN IF phase.status = "failed"
         THEN 0
         ELSE StatusScore(phase.status)
              + (IF Truthy(phase.productivity)
                 THEN ProductivityScore(phase.productivity) ELSE 0)
    ELSE 0

\* the body of the forEach of calculateProductivityScore: what one phase
\* adds to totalScore
PhaseDataPoints(phase) ==
    IF Truthy(phase.status)
    THEN IF phase.status = "failed"
         THEN 0
         ELSE StatusScore(phase.status)
              + (IF Truthy(phase.productivity)
                 THEN ProductivityScore(phase.productivity) ELSE 0)
    ELSE 0

\* the loop body without the test for 'failed'
PhaseObjectPointsNoFailedTest(phase) ==
    IF Truthy(phase.status)
    THEN StatusScore(phase.status) + ProductivityScore(phase.productivity)
    ELSE 0

\* the body of the forEach of calculateScoreFromPhaseObjects
PhaseObjectPoints(phase) ==
    IF Truthy(phase.status)
    THEN IF phase.status = "failed"
         THEN 0
         ELSE StatusScore(phase.status) + ProductivityScore(phase.productivity)
    ELSE 0

RECURSIVE SumPhaseData(_)
SumPhaseData(phaseData) ==
    IF phaseData = <<>> THEN 0
    ELSE PhaseDataPoints(Head(phaseData)) + SumPhaseData(Tail(phaseData))

\* calculateProductivityScore(phaseData): phaseData is the array built by
\* collectPhaseData
calculateProductivityScore(phaseData) == ClampScore(SumPhaseData(phaseData))

RECURSIVE SumPhaseObjects(_, _)
SumPhaseObjects(phases, keys) ==
    IF keys = {} THEN 0
    ELSE LET k == CHOOSE x \in keys : TRUE
         IN  PhaseObjectPoints(phases[k]) + SumPhaseObjects(phases, keys \ {k})

\* calculateScoreFromPhaseObjects(Object.values(updatedPhases)): phases is
\* the phases map, keyed by phase number
calculateScoreFromPhaseObjects(phases) ==
    ClampScore(SumPhaseObjects(phases, DOMAIN phases))

\* getColorForScore with the bucket boundaries one too low (>= 80, >= 60, ...)
getColorForScoreOffByOne(score) ==
    IF score = 0 THEN "#f0f0f0"
    ELSE IF score >= 80 THEN COLOR_MAPPING[80]
    ELSE IF score >= 60 THEN COLOR_MAPPING[60]
    ELSE IF score >= 40 THEN COLOR_MAPPING[40]
    ELSE IF score >= 20 THEN COLOR_MAPPING[20]
    ELSE COLOR_MAPPING[0]

\* getColorForScore(score)
getColorForScore(score) ==
    IF score = 0 THEN "#f0f0f0"
    ELSE IF score >= 81 THEN COLOR_MAPPING[80]
    ELSE IF score >= 61 THEN COLOR_MAPPING[60]
    ELSE IF score >= 41 THEN COLOR_MAPPING[40]
    ELSE IF score >= 21 THEN COLOR_MAPPING[20]
    ELSE COLOR_MAPPING[0]

(***************************************************************************)
(* Dates (app.js)                                                          *)
(***************************************************************************)
Weekdays == <<"Thursday", "Friday", "Saturday", "Sunday", "Monday", "Tuesday", "Wednesday">>

\* formatDate(date): date.toISOString().split('T')[0], the UTC day
formatDate(t) == t \div 2

\* getWeekday(date): toLocaleDateString('en-US', {weekday: 'long'}), the
\* weekday of the local day
getWeekday(t, offset) == Weekdays[(((t + offset) \div 2) % 7) + 1]

(***************************************************************************)
(* Persistence (firebase-config.js)                                        *)
(*                                                                         *)
(* A store maps the date keys that have a document to the document.  The   *)
(* document-level timestamp field is written and never read; it is left    *)
(* out.  hasPhases tells whether the document has a phases key at all.     *)
(***************************************************************************)
NoPhases == <<>>
EmptyStore == <<>>

\* the object built by saveDailyData (data) and by saveToLocalStorage
\* (dataEntry): the phases key is only set `if (phases)`
DataEntry(date, weekday, score, color, hasPhases, phases) ==
    [date |-> date, weekday |-> weekday, score |-> score, color |-> color,
     hasPhases |-> hasPhases,
     phases |-> IF hasPhases THEN phases ELSE NoPhases]

\* existingData[date] = dataEntry; setDoc(docRef, data): the whole document
\* under the key is replaced
PutRecord(store, entry) == (entry.date :> entry) @@ store

\* the keys of the localStorage blob after existingData[date] = dataEntry:
\* a new key goes last, a key that is there keeps its place
PutKey(keys, store, date) ==
    IF date \in DOMAIN store THEN keys ELSE Append(keys, date)

\* saveToLocalStorage without its try/catch: a throwing localStorage call
\* propagates
saveToLocalStorageNoCatch(loc, keys, localOk, date, weekday, score, color, hasPhases, phases) ==
    [local |-> IF localOk
               THEN PutRecord(loc, DataEntry(date, weekday, score, color, hasPhases, phases))
               ELSE loc,
     keys |-> IF localOk THEN PutKey(keys, loc, date) ELSE keys,
     result |-> TRUE,
     raised |-> ~localOk]

\* saveToLocalStorage whose failing call comes after setItem: the blob is
\* written and false is returned
saveToLocalStorageWriteThenFail(loc, keys, localOk, date, weekday, score, color, hasPhases, phases) ==
    [local |-> PutRecord(loc, DataEntry(date, weekday, score, color, hasPhases, phases)),
     keys |-> PutKey(keys, loc, date),
     result |-> localOk,
     raised |-> FALSE]

\* saveToLocalStorage: the try block stores and returns true, the catch
\* block returns false and leaves the blob as it was
saveToLocalStorage(loc, keys, localOk, date, weekday, score, color, hasPhases, phases) ==
    [local |-> IF localOk
               THEN PutRecord(loc, DataEntry(date, weekday, score, color, hasPhases, phases))
               ELSE loc,
     keys |-> IF localOk THEN PutKey(keys, loc, date) ELSE keys,
     result |-> localOk,
     raised |-> FALSE]

\* saveDailyData without its `if (!db)` test: the remote write is attempted
\* on the unset db, throws, and the catch block falls back
saveDailyDataNoDbTest(rem, loc, keys, dbv, remoteOk, localOk, date, weekday, score, color, hasPhases, phases) ==
    IF dbv /\ remoteOk
    THEN [remote |-> PutRecord(rem, DataEntry(date, weekday, score, color, hasPhases, phases)),
          local |-> loc, keys |-> keys, result |-> TRUE, raised |-> FALSE,
          remoteAttempts |-> 1, localAttempts |-> 0]
    ELSE LET r == saveToLocalStorage(loc, keys, localOk, date, weekday, score, color,
                                     FALSE, NoPhases)
         IN  [remote |-> rem, local |-> r.local, keys |-> r.keys,
              result |-> r.result, raised |-> r.raised,
              remoteAttempts |-> 1, localAttempts |-> 1]

\* saveDailyData(date, weekday, score, color, phases = null).  dbv: db was
\* initialised; remoteOk: setDoc resolves (otherwise it throws); localOk:
\* the localStorage calls do not throw.  remoteAttempts and localAttempts
\* count the setDoc and saveToLocalStorage calls made
saveDailyData(rem, loc, keys, dbv, remoteOk, localOk, date, weekday, score, color, hasPhases, phases) ==
    IF ~dbv
    THEN LET r == saveToLocalStorage(loc, keys, localOk, date, weekday, score, color,
                                     hasPhases, phases)
         IN  [remote |-> rem, local |-> r.local, keys |-> r.keys,
              result |-> r.result, raised |-> r.raised,
              remoteAttempts |-> 0, localAttempts |-> 1]
    ELSE IF remoteOk
    THEN [remote |-> PutRecord(rem, DataEntry(date, weekday, score, color, hasPhases, phases)),
          local |-> loc, keys |-> keys, result |-> TRUE, raised |-> FALSE,
          remoteAttempts |-> 1, localAttempts |-> 0]
    ELSE \* catch: saveToLocalStorage(date, weekday, score, color)
         LET r == saveToLocalStorage(loc, keys, localOk, date, weekday, score, color,
                                     FALSE, NoPhases)
         IN  [remote |-> rem, local |-> r.local, keys |-> r.keys,
              result |-> r.result, raised |-> r.raised,
              remoteAttempts |-> 1, localAttempts |-> 1]

RECURSIVE SortedDesc(_, _)
\* the documents of the remote collection as getDocs returns them for
\* query(..., orderBy('date', 'desc')): latest date first
SortedDesc(store, keys) ==
    IF keys = {} THEN <<>>
    ELSE LET m == CHOOSE x \in keys : \A y \in keys : y <= x
         IN  <<store[m]>> \o SortedDesc(store, keys \ {m})

\* Object.values(data): the records of the blob in the order of its keys
ObjectValues(loc, keys) == [k \in 1..Len(keys) |-> loc[keys[k]]]

RECURSIVE InsertByDateDesc(_, _)
\* entry put into an array that is sorted latest date first
InsertByDateDesc(sorted, entry) ==
    IF sorted = <<>> THEN <<entry>>
    ELSE IF entry.date > Head(sorted).date THEN <<entry>> \o sorted
    ELSE <<Head(sorted)>> \o InsertByDateDesc(Tail(sorted), entry)

RECURSIVE SortByDateDesc(_)
\* dataArray.sort((a, b) => new Date(b.date) - new Date(a.date))
SortByDateDesc(dataArray) ==
    IF dataArray = <<>> THEN <<>>
    ELSE InsertByDateDesc(SortByDateDesc(Tail(dataArray)), Head(dataArray))

\* fetchFromLocalStorage without the sort: Object.values as it comes
fetchFromLocalStorageUnsorted(loc, keys, localOk) ==
    [data |-> IF localOk THEN ObjectValues(loc, keys) ELSE <<>>,
     raised |-> FALSE]

\* fetchFromLocalStorage: the sorted records, [] from the catch block when
\* the localStorage calls throw
fetchFromLocalStorage(loc, keys, localOk) ==
    [data |-> IF localOk THEN SortByDateDesc(ObjectValues(loc, keys)) ELSE <<>>,
     raised |-> FALSE]

\* fetchAllData.  remoteOk: getDocs resolves (otherwise it throws).
\* remoteAttempts and localAttempts count the getDocs and
\* fetchFromLocalStorage calls made
fetchAllData(rem, loc, keys, dbv, remoteOk, localOk) ==
    IF ~dbv
    THEN LET r == fetchFromLocalStorage(loc, keys, localOk)
         IN  [data |-> r.data, raised |-> r.raised,
              remoteAttempts |-> 0, localAttempts |-> 1]
    ELSE IF remoteOk
    THEN [data |-> SortedDesc(rem, DOMAIN rem), raised |-> FALSE,
          remoteAttempts |-> 1, localAttempts |-> 0]
    ELSE \* catch: return fetchFromLocalStorage()
         LET r == fetchFromLocalStorage(loc, keys, localOk)
         IN  [data |-> r.data, raised |-> r.raised,
              remoteAttempts |-> 1, localAttempts |-> 1]

\* getTodayData(date): allData.find(item => item.date === date) or the empty
\* structure {phases: {}, score: 0, color: '#f0f0f0'}; the fields the callers
\* read
getTodayData(allData, date) ==
    IF \E k \in 1..Len(allData) : allData[k].date = date
    THEN LET k == CHOOSE j \in 1..Len(allData) :
                    /\ allData[j].date = date
                    /\ \A h \in 1..(j - 1) : allData[h].date # date
         IN  [found |-> TRUE, hasPhases |-> allData[k].hasPhases,
              phases |-> allData[k].phases,
              score |-> allData[k].score, color |-> allData[k].color]
    ELSE [found |-> FALSE, hasPhases |-> TRUE, phases |-> NoPhases,
          score |-> 0, color |-> "#f0f0f0"]

(***************************************************************************)
(* State                                                                   *)
(***************************************************************************)
VARIABLES
    db,             \* firebase-config.js `db`: TRUE when getFirestore succeeded
    remote,         \* the Firestore collection users/defaultUser/consistency
    local,          \* the localStorage blob 'productivityData'
    localKeys,      \* the keys of the blob, in the order Object.values follows
    now,            \* the current instant, in half days
    tz,             \* the client's UTC offset, in half days
    controls,       \* the status and productivity dropdown of each phase
    buttonDisabled, \* generateButton.disabled
    heatmapData,    \* app.js `heatmapData`
    pc,             \* where the page's handler (initializeApp, handleGenerateClick) is
    gen,            \* the locals of the running handleGenerateClick
    lock,           \* the un-awaited lockSavedPhases call
    lastSave,       \* history: the last saveDailyData call and what it resolved to
    saved,          \* history: per date, the phases a successful generate submitted
    generates,      \* history: number of generate clicks that passed validation
    faults,         \* history: number of persistence calls in which an operation threw
    scCount,        \* scoring run: number of phases processed
    scPhase,        \* scoring run: the phase processed last
    scTotalData,    \* scoring run: totalScore of calculateProductivityScore
    scTotalObjects, \* scoring run: totalScore of calculateScoreFromPhaseObjects
    scLastData,     \* scoring run: what the last phase added (calculateProductivityScore)
    scLastObjects,  \* scoring run: what the last phase added (calculateScoreFromPhaseObjects)
    colScore,       \* color run: the score handed to getColorForScore
    colColor,       \* color run: what getColorForScore returned ("none" before the call)
    lastFetch,      \* facade run: the last fetchAllData call since the last save
    fcCalls,        \* facade run: number of facade calls made
    dtNow,          \* date run: the instant `new Date()` gives, in half days
    dtTz,           \* date run: the client's UTC offset, in half days
    dtStamp,        \* date run: the date key and weekday computed for dtNow
    swStatic,       \* sw.js: the URLs cached in STATIC_CACHE_NAME
    swDynamic,      \* sw.js: the URLs cached in DYNAMIC_CACHE_NAME, oldest first
    swLast          \* history: the last fetch event and how it was answered

appVars == <<db, remote, local, localKeys, now, tz, controls, buttonDisabled, heatmapData,
             pc, gen, lock, lastSave, saved, generates, faults>>
scVars == <<scCount, scPhase, scTotalData, scTotalObjects, scLastData, scLastObjects>>
colVars == <<colScore, colColor>>
\* the variables the page's handlers leave alone, and those the scoring and
\* color runs leave alone
fcVars == <<lastFetch, fcCalls>>
dtVars == <<dtNow, dtTz, dtStamp>>
swVars == <<swStatic, swDynamic, swLast>>
notAppVars == <<scVars, colVars, fcVars, dtVars, swVars>>
notScVars == <<appVars, colVars, fcVars, dtVars, swVars>>
notColVars == <<appVars, scVars, fcVars, dtVars, swVars>>
notDtVars == <<appVars, scVars, colVars, fcVars, swVars>>
notSwVars == <<appVars, scVars, colVars, fcVars, dtVars>>
\* what a direct call of the facade leaves alone
notFacadeVars == <<db, now, tz, controls, buttonDisabled, heatmapData, pc, gen, lock,
                   saved, generates, faults, scVars, colVars, dtVars, swVars>>
vars == <<appVars, scVars, colVars, fcVars, dtVars, swVars>>

\* the values the user selects in the model ('' is the placeholder option)
StatusChoices == {StatusOptions[k] : k \in 1..Min(MaxStatusChoice, Len(StatusOptions))}
ProductivityChoices ==
    {ProductivityOptions[k] : k \in 1..Min(MaxProductivityChoice, Len(ProductivityOptions))}
ActivePhases == 1..Min(MaxActivePhase, NumPhases)

\* a freshly rendered pair of dropdowns
FreshControl == [status |-> "", productivity |-> "",
                 statusDisabled |-> FALSE, productivityDisabled |-> FALSE]

\* collectPhaseData()
collectPhaseData(ctrl) ==
    [i \in Phases |-> [phase |-> i, status |-> ctrl[i].status,
                       productivity |-> ctrl[i].productivity]]

\* a validation that accepts every submission
validateAllPhasesAcceptsAll(phaseData) == TRUE

\* validateAllPhases(phaseData): phaseData.some(phase => phase.status)
validateAllPhases(phaseData) == \E i \in DOMAIN phaseData : phaseData[i].status # ""

\* savePhaseData: updatedPhases = {...existingData.phases} followed by the
\* forEach that sets phase${phase.phase} for every phase with a status
MergePhases(existingPhases, phaseData, t) ==
    LET submitted == {i \in DOMAIN phaseData : phaseData[i].status # ""}
    IN  [i \in (DOMAIN existingPhases) \cup submitted |->
            IF i \in submitted
            THEN [status |-> phaseData[i].status,
                  productivity |-> phaseData[i].productivity,
                  timestamp |-> t, locked |-> TRUE]
            ELSE existingPhases[i]]

\* lockSavedPhases / loadTodayPhases: every phase of todayData.phases that is
\* locked gets its stored values back and both dropdowns disabled
RestoreAndLock(ctrl, todayData) ==
    [i \in Phases |->
        IF todayData.hasPhases /\ i \in DOMAIN todayData.phases
           /\ todayData.phases[i].locked
        THEN [status |-> todayData.phases[i].status,
              productivity |-> todayData.phases[i].productivity,
              statusDisabled |-> TRUE, productivityDisabled |-> TRUE]
        ELSE ctrl[i]]

NoGen == [phaseData |-> collectPhaseData([i \in Phases |-> FreshControl]),
          date |-> 0, weekday |-> "", updatedPhases |-> NoPhases,
          totalScore |-> 0, color |-> ""]
NoToday == getTodayData(<<>>, 0)
NoLock == [state |-> "none", date |-> 0, today |-> NoToday]
NoSave == [called |-> FALSE, date |-> 0, weekday |-> "", score |-> 0, color |-> "",
           hasPhases |-> FALSE, phases |-> NoPhases,
           remoteState |-> "uninitialized", localState |-> "succeeds",
           result |-> FALSE, raised |-> FALSE,
           remoteAttempts |-> 0, localAttempts |-> 0]

\* the history record of one saveDailyData call: its arguments, the state of
\* the backends during the call and what the call did
SaveRecord(dbv, remoteOk, localOk, out, date, weekday, score, color, hasPhases, phases) ==
    [called |-> TRUE, date |-> date, weekday |-> weekday, score |-> score,
     color |-> color, hasPhases |-> hasPhases,
     phases |-> IF hasPhases THEN phases ELSE NoPhases,
     remoteState |-> IF ~dbv THEN "uninitialized"
                     ELSE IF remoteOk THEN "succeeds" ELSE "throws",
     localState |-> IF localOk THEN "succeeds" ELSE "throws",
     result |-> out.result, raised |-> out.raised,
     remoteAttempts |-> out.remoteAttempts, localAttempts |-> out.localAttempts]

\* 1 when an operation throws in a saveDailyData or fetchAllData call (the
\* remote one when db is set, the local one when it is reached), else 0
FaultsOf(dbv, remoteOk, localOk) ==
    IF (dbv /\ ~remoteOk) \/ ((~dbv \/ ~remoteOk) /\ ~localOk) THEN 1 ELSE 0

ScIdle ==
    /\ scCount = 0
    /\ scPhase = [status |-> "", productivity |-> ""]
    /\ scTotalData = 0
    /\ scTotalObjects = 0
    /\ scLastData = 0
    /\ scLastObjects = 0

ColIdle ==
    /\ colScore = 0
    /\ colColor = "none"

NoFetch == [called |-> FALSE, data |-> <<>>, raised |-> FALSE,
            remoteState |-> "uninitialized", localState |-> "succeeds",
            remoteAttempts |-> 0, localAttempts |-> 0]

\* the history record of one fetchAllData call: the state of the backends
\* during the call and what the call did
FetchRecord(dbv, remoteOk, localOk, out) ==
    [called |-> TRUE, data |-> out.data, raised |-> out.raised,
     remoteState |-> IF ~dbv THEN "uninitialized"
                     ELSE IF remoteOk THEN "succeeds" ELSE "throws",
     localState |-> IF localOk THEN "succeeds" ELSE "throws",
     remoteAttempts |-> out.remoteAttempts, localAttempts |-> out.localAttempts]

FcIdle ==
    /\ lastFetch = NoFetch
    /\ fcCalls = 0

NoStamp == [called |-> FALSE, date |-> 0, weekday |-> ""]

DtIdle ==
    /\ dtNow = 0
    /\ dtTz = 0
    /\ dtStamp = NoStamp

NoFetchEvent == [called |-> FALSE, request |-> "", kind |-> "", destination |-> "",
                 strategy |-> "none", net |-> "", wasCached |-> FALSE,
                 indexCached |-> FALSE, tried |-> <<>>, response |-> "none",
                 rejected |-> FALSE]

\* no service worker installed yet: both caches empty
SwIdle ==
    /\ swStatic = {}
    /\ swDynamic = <<>>
    /\ swLast = NoFetchEvent

\* the page right after the synchronous part of initializeApp: listeners
\* set, validateInputs has disabled the button, loadHeatmapData is awaiting
Init ==
    /\ db \in BOOLEAN
    /\ remote = EmptyStore
    /\ local = EmptyStore
    /\ localKeys = <<>>
    /\ now = 0
    /\ tz = 0
    /\ controls = [i \in Phases |-> FreshControl]
    /\ buttonDisabled = TRUE
    /\ heatmapData = <<>>
    /\ pc = "load_heatmap"
    /\ gen = NoGen
    /\ lock = NoLock
    /\ lastSave = NoSave
    /\ saved = [d \in {} |-> {}]
    /\ generates = 0
    /\ faults = 0
    /\ ScIdle
    /\ ColIdle
    /\ FcIdle
    /\ DtIdle
    /\ SwIdle

\* Without a remote backend every await of a handler resolves without I/O, so
\* the handler runs to its end before any other event is dispatched; with it,
\* other events are dispatched while the handler awaits the network.
EventsDispatch == db \/ (pc = "idle" /\ lock.state = "none")

(***************************************************************************)
(* Page load (initializeApp)                                               *)
(***************************************************************************)
\* validateInputs(): generateButton.disabled = !isValid
validateInputs(ctrl) == ~validateAllPhases(collectPhaseData(ctrl))

\* the page is (re)loaded: the controls are rendered afresh,
\* setupEventListeners ends with validateInputs, loadHeatmapData starts.
\* The module of firebase-config.js runs again with the same outcome for db.
\* (The model reloads the page between handlers only.)
PageLoad ==
    /\ pc = "idle"
    /\ lock.state = "none"
    /\ controls' = [i \in Phases |-> FreshControl]
    /\ buttonDisabled' = validateInputs(controls')
    /\ heatmapData' = <<>>
    /\ pc' = "load_heatmap"
    /\ gen' = NoGen
    /\ UNCHANGED <<db, remote, local, localKeys, now, tz, lock, lastSave, saved, generates, faults>>
    /\ UNCHANGED notAppVars

\* loadHeatmapData: heatmapData = await fetchAllData()
LoadHeatmapReturn ==
    /\ pc = "load_heatmap"
    /\ \E remoteOk \in BOOLEAN, localOk \in BOOLEAN :
          /\ faults + FaultsOf(db, remoteOk, localOk) <= MaxFaults
          /\ faults' = faults + FaultsOf(db, remoteOk, localOk)
          /\ heatmapData' = fetchAllData(remote, local, localKeys, db, remoteOk, localOk).data
    /\ pc' = "load_today"
    /\ UNCHANGED <<db, remote, local, localKeys, now, tz, controls, buttonDisabled, gen, lock,
                   lastSave, saved, generates>>
    /\ UNCHANGED notAppVars

\* loadTodayPhases: restores and locks the phases stored for today
LoadTodayReturn ==
    /\ pc = "load_today"
    /\ \E remoteOk \in BOOLEAN, localOk \in BOOLEAN :
          /\ faults + FaultsOf(db, remoteOk, localOk) <= MaxFaults
          /\ faults' = faults + FaultsOf(db, remoteOk, localOk)
          /\ controls' = RestoreAndLock(controls,
                            getTodayData(fetchAllData(remote, local, localKeys, db, remoteOk, localOk).data,
                                         formatDate(now)))
    /\ pc' = "idle"
    /\ UNCHANGED <<db, remote, local, localKeys, now, tz, buttonDisabled, heatmapData, gen, lock,
                   lastSave, saved, generates>>
    /\ UNCHANGED notAppVars

(***************************************************************************)
(* The user and the clock                                                  *)
(***************************************************************************)
\* handleStatusChange: 'failed' disables and resets the productivity
\* dropdown, any other value enables it
handleStatusChange(control, value) ==
    IF value = "failed"
    THEN [control EXCEPT !.status = value, !.productivity = "",
                         !.productivityDisabled = TRUE]
    ELSE [control EXCEPT !.status = value, !.productivityDisabled = FALSE]

\* 'change' on a status dropdown: handleStatusChange(e); validateInputs()
StatusChange ==
    /\ EventsDispatch
    /\ \E i \in ActivePhases, value \in StatusChoices \cup {""} :
          /\ ~controls[i].statusDisabled
          /\ value # controls[i].status
          /\ controls' = [controls EXCEPT ![i] = handleStatusChange(@, value)]
    /\ buttonDisabled' = validateInputs(controls')
    /\ UNCHANGED <<db, remote, local, localKeys, now, tz, heatmapData, pc, gen, lock,
                   lastSave, saved, generates, faults>>
    /\ UNCHANGED notAppVars

\* 'change' on a productivity dropdown: validateInputs()
ProductivityChange ==
    /\ EventsDispatch
    /\ \E i \in ActivePhases, value \in ProductivityChoices \cup {""} :
          /\ ~controls[i].productivityDisabled
          /\ value # controls[i].productivity
          /\ controls' = [controls EXCEPT ![i].productivity = value]
    /\ buttonDisabled' = validateInputs(controls')
    /\ UNCHANGED <<db, remote, local, localKeys, now, tz, heatmapData, pc, gen, lock,
                   lastSave, saved, generates, faults>>
    /\ UNCHANGED notAppVars

\* half a day passes
Tick ==
    /\ EventsDispatch
    /\ now < MaxNow
    /\ now' = now + 1
    /\ UNCHANGED <<db, remote, local, localKeys, tz, controls, buttonDisabled, heatmapData, pc,
                   gen, lock, lastSave, saved, generates, faults>>
    /\ UNCHANGED notAppVars

(***************************************************************************)
(* handleGenerateClick                                                     *)
(***************************************************************************)
\* savePhaseData, from the merge to the arguments of saveDailyData
MergedRecord(existingPhases, phaseData, t) ==
    LET updatedPhases == MergePhases(existingPhases, phaseData, t)
        totalScore == calculateScoreFromPhaseObjects(updatedPhases)
    IN  [updatedPhases |-> updatedPhases, totalScore |-> totalScore,
         color |-> getColorForScore(totalScore)]

\* the color taken before the score is known
CurrentScoreColorFirst(phaseData) ==
    LET score == calculateProductivityScore(phaseData)
    IN  [score |-> score, color |-> getColorForScore(0)]

\* handleGenerateClick: score = calculateProductivityScore(phaseData);
\* color = getColorForScore(score)
CurrentScore(phaseData) ==
    LET score == calculateProductivityScore(phaseData)
    IN  [score |-> score, color |-> getColorForScore(score)]

\* the click up to the first await: the button is disabled, the dropdowns
\* are collected and validated (a failed validation returns through the
\* finally block), date and weekday are taken, savePhaseData starts.
\* (The model runs one handleGenerateClick at a time and starts it when the
\* page has loaded and the previous lockSavedPhases has returned.)
GenerateClick ==
    /\ pc = "idle"
    /\ lock.state = "none"
    /\ ~buttonDisabled
    /\ LET phaseData == collectPhaseData(controls)
       IN  IF ~validateAllPhases(phaseData)
           THEN /\ buttonDisabled' = FALSE
                /\ UNCHANGED <<pc, gen, generates>>
           ELSE /\ generates < MaxGenerates
                /\ generates' = generates + 1
                /\ buttonDisabled' = TRUE
                /\ gen' = [NoGen EXCEPT !.phaseData = phaseData,
                                        !.date = formatDate(now),
                                        !.weekday = getWeekday(now, tz)]
                /\ pc' = "gen_fetch"
    /\ UNCHANGED <<db, remote, local, localKeys, now, tz, controls, heatmapData, lock,
                   lastSave, saved, faults>>
    /\ UNCHANGED notAppVars

\* savePhaseData: getTodayData has returned; the phases are merged and the
\* score and color of the merged map are computed
GenerateFetchReturn ==
    /\ pc = "gen_fetch"
    /\ \E remoteOk \in BOOLEAN, localOk \in BOOLEAN :
          LET data == fetchAllData(remote, local, localKeys, db, remoteOk, localOk).data
              existingData == getTodayData(data, gen.date)
              merged == MergedRecord(existingData.phases, gen.phaseData, now)
          IN  /\ faults + FaultsOf(db, remoteOk, localOk) <= MaxFaults
              /\ faults' = faults + FaultsOf(db, remoteOk, localOk)
              /\ gen' = [gen EXCEPT !.updatedPhases = merged.updatedPhases,
                                    !.totalScore = merged.totalScore,
                                    !.color = merged.color]
    /\ pc' = "gen_save"
    /\ UNCHANGED <<db, remote, local, localKeys, now, tz, controls, buttonDisabled, heatmapData,
                   lock, lastSave, saved, generates>>
    /\ UNCHANGED notAppVars

\* savePhaseData: saveDailyData(date, weekday, totalScore, color,
\* updatedPhases) has resolved.  On success lockSavedPhases is called without
\* await (without a remote backend its read of localStorage happens in the
\* call) and updateHeatmapColor starts; on failure the handler throws and
\* returns through catch and finally
GenerateSaveReturn ==
    /\ pc = "gen_save"
    /\ \E remoteOk \in BOOLEAN, localOk \in BOOLEAN, readOk \in BOOLEAN :
          LET out == saveDailyData(remote, local, localKeys, db, remoteOk, localOk,
                                   gen.date, gen.weekday, gen.totalScore, gen.color,
                                   TRUE, gen.updatedPhases)
              cost == FaultsOf(db, remoteOk, localOk)
                      + (IF out.result /\ ~db /\ ~readOk THEN 1 ELSE 0)
          IN  /\ faults + cost <= MaxFaults
              /\ faults' = faults + cost
              /\ remote' = out.remote
              /\ local' = out.local
              /\ localKeys' = out.keys
              /\ lastSave' = SaveRecord(db, remoteOk, localOk, out, gen.date, gen.weekday, gen.totalScore,
                                        gen.color, TRUE, gen.updatedPhases)
              /\ IF out.result
                 THEN /\ pc' = "gen_update"
                      /\ saved' = (gen.date :>
                                     ((IF gen.date \in DOMAIN saved THEN saved[gen.date] ELSE {})
                                      \cup {i \in Phases : gen.phaseData[i].status # ""}))
                                  @@ saved
                      /\ lock' = [state |-> "pending", date |-> gen.date,
                                  today |-> IF db THEN NoToday
                                            ELSE getTodayData(
                                                   fetchFromLocalStorage(out.local, out.keys, readOk).data,
                                                   gen.date)]
                      /\ UNCHANGED <<buttonDisabled, gen>>
                 ELSE /\ pc' = "idle"
                      /\ gen' = NoGen
                      /\ buttonDisabled' = FALSE
                      /\ UNCHANGED <<saved, lock>>
    /\ UNCHANGED <<db, now, tz, controls, heatmapData, generates>>
    /\ UNCHANGED notAppVars

\* lockSavedPhases: getTodayData has returned (with a remote backend the
\* read happens now); the stored phases are locked
LockReturn ==
    /\ lock.state = "pending"
    /\ \E remoteOk \in BOOLEAN, localOk \in BOOLEAN :
          LET cost == IF db THEN FaultsOf(db, remoteOk, localOk) ELSE 0
              todayData == IF db
                           THEN getTodayData(
                                  fetchAllData(remote, local, localKeys, db, remoteOk, localOk).data,
                                  lock.date)
                           ELSE lock.today
          IN  /\ faults + cost <= MaxFaults
              /\ faults' = faults + cost
              /\ controls' = RestoreAndLock(controls, todayData)
    /\ lock' = NoLock
    /\ UNCHANGED <<db, remote, local, localKeys, now, tz, buttonDisabled, heatmapData, pc, gen,
                   lastSave, saved, generates>>
    /\ UNCHANGED notAppVars

\* updateHeatmapColor: saveDailyData(date, weekday, score, color) has
\* resolved; loadHeatmapData starts
GenerateUpdateReturn ==
    /\ pc = "gen_update"
    /\ \E remoteOk \in BOOLEAN, localOk \in BOOLEAN :
          LET current == CurrentScore(gen.phaseData)
              out == saveDailyData(remote, local, localKeys, db, remoteOk, localOk,
                                   gen.date, gen.weekday, current.score, current.color,
                                   FALSE, NoPhases)
          IN  /\ faults + FaultsOf(db, remoteOk, localOk) <= MaxFaults
              /\ faults' = faults + FaultsOf(db, remoteOk, localOk)
              /\ remote' = out.remote
              /\ local' = out.local
              /\ localKeys' = out.keys
              /\ lastSave' = SaveRecord(db, remoteOk, localOk, out, gen.date, gen.weekday, current.score,
                                        current.color, FALSE, NoPhases)
    /\ pc' = "gen_reload"
    /\ UNCHANGED <<db, now, tz, controls, buttonDisabled, heatmapData, gen, lock,
                   saved, generates>>
    /\ UNCHANGED notAppVars

\* loadHeatmapData has returned; the finally block re-enables the button
GenerateReloadReturn ==
    /\ pc = "gen_reload"
    /\ \E remoteOk \in BOOLEAN, localOk \in BOOLEAN :
          /\ faults + FaultsOf(db, remoteOk, localOk) <= MaxFaults
          /\ faults' = faults + FaultsOf(db, remoteOk, localOk)
          /\ heatmapData' = fetchAllData(remote, local, localKeys, db, remoteOk, localOk).data
    /\ buttonDisabled' = FALSE
    /\ pc' = "idle"
    /\ gen' = NoGen
    /\ UNCHANGED <<db, remote, local, localKeys, now, tz, controls, lock, lastSave, saved,
                   generates>>
    /\ UNCHANGED notAppVars

Next ==
    \/ PageLoad
    \/ LoadHeatmapReturn
    \/ LoadTodayReturn
    \/ StatusChange
    \/ ProductivityChange
    \/ Tick
    \/ GenerateClick
    \/ GenerateFetchReturn
    \/ GenerateSaveReturn
    \/ LockReturn
    \/ GenerateUpdateReturn
    \/ GenerateReloadReturn

Spec == Init /\ [][Next]_vars

(***************************************************************************)
(* Scoring runs: the two scoring loops applied, phase by phase, to the     *)
(* same collection of up to NumPhases phases, every phase drawn from all   *)
(* status and productivity values (known, empty, unknown)                  *)
(***************************************************************************)
ScoreStatusValues ==
    {StatusOptions[k] : k \in 1..Len(StatusOptions)} \cup {"", UnknownValue, MissingValue}
ScoreProductivityValues ==
    {ProductivityOptions[k] : k \in 1..Len(ProductivityOptions)}
        \cup {"", UnknownValue, MissingValue}

\* a page on which no handler runs and nothing has been stored
PageIdle ==
    /\ remote = EmptyStore
    /\ local = EmptyStore
    /\ localKeys = <<>>
    /\ now = 0
    /\ tz = 0
    /\ controls = [i \in Phases |-> FreshControl]
    /\ buttonDisabled = TRUE
    /\ heatmapData = <<>>
    /\ pc = "idle"
    /\ gen = NoGen
    /\ lock = NoLock
    /\ lastSave = NoSave
    /\ saved = [d \in {} |-> {}]
    /\ generates = 0
    /\ faults = 0

InitScore ==
    /\ db = TRUE
    /\ PageIdle
    /\ ScIdle
    /\ ColIdle
    /\ FcIdle
    /\ DtIdle
    /\ SwIdle

\* one iteration of phaseData.forEach / phases.forEach: totalScore += ...
ScorePhase ==
    /\ scCount < NumPhases
    /\ \E status \in ScoreStatusValues, productivity \in ScoreProductivityValues :
          /\ scPhase' = [status |-> status, productivity |-> productivity]
          /\ scLastData' = PhaseDataPoints(scPhase')
          /\ scLastObjects' = PhaseObjectPoints(scPhase')
    /\ scTotalData' = scTotalData + scLastData'
    /\ scTotalObjects' = scTotalObjects + scLastObjects'
    /\ scCount' = scCount + 1
    /\ UNCHANGED notScVars

\* the next call: let totalScore = 0
ScoreStart ==
    /\ scCount > 0
    /\ scCount' = 0
    /\ scPhase' = [status |-> "", productivity |-> ""]
    /\ scTotalData' = 0
    /\ scTotalObjects' = 0
    /\ scLastData' = 0
    /\ scLastObjects' = 0
    /\ UNCHANGED notScVars

NextScore ==
    \/ ScorePhase
    \/ ScoreStart

SpecScore == InitScore /\ [][NextScore]_vars

\* what calculateProductivityScore returns for the phases processed so far
scResultData == ClampScore(scTotalData)
\* what calculateScoreFromPhaseObjects returns for the phases processed so far
scResultObjects == ClampScore(scTotalObjects)

(***************************************************************************)
(* getColorForScore on every score (app.js)                                *)
(***************************************************************************)
InitColor ==
    /\ db = TRUE
    /\ PageIdle
    /\ ScIdle
    /\ FcIdle
    /\ DtIdle
    /\ SwIdle
    /\ colScore \in 0..MaxScore
    /\ colColor = "none"

\* const color = getColorForScore(totalScore)
ColorCall ==
    /\ colColor = "none"
    /\ colColor' = getColorForScore(colScore)
    /\ UNCHANGED colScore
    /\ UNCHANGED notColVars

\* the next score to colour
ColorNext ==
    /\ colColor # "none"
    /\ colScore' \in 0..MaxScore
    /\ colColor' = "none"
    /\ UNCHANGED notColVars

NextColor ==
    \/ ColorCall
    \/ ColorNext

SpecColor == InitColor /\ [][NextColor]_vars

(***************************************************************************)
(* The persistence facade called directly (firebase-config.js)             *)
(***************************************************************************)
MaxFacadeDate == 1
MaxFacadeCalls == 3

\* the arguments of the calls: dates 0..MaxFacadeDate, a zero and a positive
\* score with their colors, and for phases either nothing or a map with one
\* phase
FacadeDates == 0..MaxFacadeDate
FacadeScores == {0, SCORING_status["passed"]}
FacadePhases ==
    {[hasPhases |-> FALSE, phases |-> NoPhases],
     [hasPhases |-> TRUE,
      phases |-> (1 :> [status |-> "passed", productivity |-> "",
                        timestamp |-> 0, locked |-> TRUE])]}

\* db is set or not, once, when firebase-config.js is loaded
InitFacade ==
    /\ db \in BOOLEAN
    /\ PageIdle
    /\ ScIdle
    /\ ColIdle
    /\ FcIdle
    /\ DtIdle
    /\ SwIdle

\* await saveDailyData(date, weekday, score, color, phases)
FacadeSave ==
    /\ fcCalls < MaxFacadeCalls
    /\ \E date \in FacadeDates, score \in FacadeScores, p \in FacadePhases,
          remoteOk \in BOOLEAN, localOk \in BOOLEAN :
          LET weekday == getWeekday(2 * date, tz)
              color == getColorForScore(score)
              out == saveDailyData(remote, local, localKeys, db, remoteOk, localOk,
                                   date, weekday, score, color, p.hasPhases, p.phases)
          IN  /\ remote' = out.remote
              /\ local' = out.local
              /\ localKeys' = out.keys
              /\ lastSave' = SaveRecord(db, remoteOk, localOk, out, date, weekday,
                                        score, color, p.hasPhases, p.phases)
    /\ lastFetch' = NoFetch
    /\ fcCalls' = fcCalls + 1
    /\ UNCHANGED notFacadeVars

\* await fetchAllData()
FacadeFetch ==
    /\ fcCalls < MaxFacadeCalls
    /\ \E remoteOk \in BOOLEAN, localOk \in BOOLEAN :
          lastFetch' = FetchRecord(db, remoteOk, localOk,
                                   fetchAllData(remote, local, localKeys, db,
                                                remoteOk, localOk))
    /\ fcCalls' = fcCalls + 1
    /\ UNCHANGED <<remote, local, localKeys, lastSave>>
    /\ UNCHANGED notFacadeVars

NextFacade ==
    \/ FacadeSave
    \/ FacadeFetch

SpecFacade == InitFacade /\ [][NextFacade]_vars

(***************************************************************************)
(* The date key and the weekday of an instant (app.js)                     *)
(***************************************************************************)
MaxDateInstant == 20

\* the UTC offsets of the clients: 12 hours behind, none, 12 hours ahead
TzOffsets == {-1, 0, 1}

InitDate ==
    /\ db = TRUE
    /\ PageIdle
    /\ ScIdle
    /\ ColIdle
    /\ FcIdle
    /\ dtNow = 0
    /\ dtTz \in TzOffsets
    /\ dtStamp = NoStamp
    /\ SwIdle

\* const today = new Date(); const date = formatDate(today);
\* const weekday = getWeekday(today)
DateStamp ==
    /\ ~dtStamp.called
    /\ dtStamp' = [called |-> TRUE, date |-> formatDate(dtNow),
                   weekday |-> getWeekday(dtNow, dtTz)]
    /\ UNCHANGED <<dtNow, dtTz>>
    /\ UNCHANGED notDtVars

\* half a day passes before the next generate action
DateTick ==
    /\ dtNow < MaxDateInstant
    /\ dtNow' = dtNow + 1
    /\ dtStamp' = NoStamp
    /\ UNCHANGED dtTz
    /\ UNCHANGED notDtVars

NextDate ==
    \/ DateStamp
    \/ DateTick

SpecDate == InitDate /\ [][NextDate]_vars

(***************************************************************************)
(* The service worker (sw.js)                                              *)
(*                                                                         *)
(* A URL is the sequence of the pieces of its text; the pieces are cut so  *)
(* that every text the worker looks for with includes() is a run of whole  *)
(* pieces ('.json' is '.js' followed by 'on').                             *)
(***************************************************************************)
\* url.includes(text)
Includes(url, text) ==
    \E k \in 1..(Len(url) - Len(text) + 1) :
        SubSeq(url, k, k + Len(text) - 1) = text

\* request.url.startsWith('http')
StartsWithHttp(url) == url # <<>> /\ Head(url) \in {"http:", "https:"}

\* STATIC_FILES
STATIC_FILES ==
    << <<"/">>,
       <<"/", "index", ".html">>,
       <<"/", "style", ".css">>,
       <<"/", "app", ".js">>,
       <<"/", "firebase", "-config", ".js">>,
       <<"/", "manifest", ".js", "on">>,
       <<"/", "icons", "/", "icon-192", ".png">>,
       <<"/", "icons", "/", "icon-512", ".png">>,
       <<"https:", "/", "/", "www.", "gstatic.com", "/", "firebase", "js", "/",
         "10.7.1", "/", "firebase", "-app", ".js">>,
       <<"https:", "/", "/", "www.", "gstatic.com", "/", "firebase", "js", "/",
         "10.7.1", "/", "firebase", "-firestore", ".js">> >>

\* DYNAMIC_CACHE_LIMIT
DYNAMIC_CACHE_LIMIT == 50

\* isStaticFile(url)
isStaticFile(url) ==
    \/ \E f \in 1..Len(STATIC_FILES) : Includes(url, STATIC_FILES[f])
    \/ Includes(url, <<".css">>)
    \/ Includes(url, <<".js">>)
    \/ Includes(url, <<".png">>)
    \/ Includes(url, <<".jpg">>)
    \/ Includes(url, <<".ico">>)
    \/ Includes(url, <<".svg">>)

\* isFirebaseRequest(url)
isFirebaseRequest(url) ==
    \/ Includes(url, <<"firestore.googleapis.com">>)
    \/ Includes(url, <<"firebase">>)
    \/ Includes(url, <<"gstatic.com", "/", "firebase", "js">>)

\* isAPIRequest(url)
isAPIRequest(url) ==
    \/ Includes(url, <<"/", "api", "/">>)
    \/ Includes(url, <<"firestore.googleapis.com">>)

\* the origin the page and the worker are served from
Origin == <<"https:", "/", "/", "tracker.example">>

\* the requests of the model, with what each is a request for: the page,
\* a stylesheet and a script of the app, a Firebase SDK file from the CDN,
\* a Firestore call, a call of an /api/ endpoint, a font of another site
\* and a request that is not HTTP
SwRequests ==
    {[name |-> "page", kind |-> "static", destination |-> "document",
      url |-> Origin \o <<"/">>],
     [name |-> "index", kind |-> "static", destination |-> "document",
      url |-> Origin \o <<"/", "index", ".html">>],
     [name |-> "style", kind |-> "static", destination |-> "style",
      url |-> Origin \o <<"/", "style", ".css">>],
     [name |-> "app", kind |-> "static", destination |-> "script",
      url |-> Origin \o <<"/", "app", ".js">>],
     [name |-> "sdk", kind |-> "sdk", destination |-> "script",
      url |-> <<"https:", "/", "/", "www.", "gstatic.com", "/", "firebase", "js", "/",
                "10.7.1", "/", "firebase", "-firestore", ".js">>],
     [name |-> "firestore", kind |-> "remote-store", destination |-> "",
      url |-> <<"https:", "/", "/", "firestore.googleapis.com", "/", "v1", "/",
                "projects", "/", "documents">>],
     [name |-> "api", kind |-> "api", destination |-> "",
      url |-> Origin \o <<"/", "api", "/", "sync-offline-data">>],
     [name |-> "font", kind |-> "other", destination |-> "font",
      url |-> <<"https:", "/", "/", "fonts.example", "/", "font", ".woff2">>],
     [name |-> "extension", kind |-> "other", destination |-> "",
      url |-> <<"chrome-extension:", "/", "/", "id", "/", "page", ".html">>]}

\* what fetch(request) does: a 200 response, another response, a rejection
NetOutcomes == {"ok-200", "ok-404", "fails"}

\* the URLs cache.addAll(STATIC_FILES) requests: the entries that are paths
\* resolved against the origin, the others as they are
InstallUrls ==
    {IF StartsWithHttp(STATIC_FILES[f]) THEN STATIC_FILES[f]
     ELSE Origin \o STATIC_FILES[f] : f \in 1..Len(STATIC_FILES)}

\* caches.match(url): a hit in any cache
CacheMatch(static, dynamic, url) ==
    url \in static \/ \E k \in 1..Len(dynamic) : dynamic[k] = url

\* limitCacheSize(DYNAMIC_CACHE_NAME, maxSize): the oldest keys beyond
\* maxSize are deleted
limitCacheSize(dynamic, maxSize) ==
    IF Len(dynamic) > maxSize
    THEN SubSeq(dynamic, Len(dynamic) - maxSize + 1, Len(dynamic))
    ELSE dynamic

\* what caches.match('/index.html') looks up
IndexUrl == Origin \o <<"/", "index", ".html">>

\* cacheFirst(request).  tried lists the sources in the order they are
\* asked for a response
cacheFirst(request, static, dynamic, net) ==
    IF CacheMatch(static, dynamic, request.url)
    THEN [tried |-> <<"cache">>, response |-> "cached", rejected |-> FALSE,
          static |-> static, dynamic |-> dynamic]
    ELSE IF net = "fails"
    THEN \* catch: the cached /index.html for a document, else 'Offline'
         [tried |-> <<"cache", "network">>,
          response |-> IF request.destination = "document"
                          /\ CacheMatch(static, dynamic, IndexUrl)
                       THEN "cached-index" ELSE "offline-503",
          rejected |-> FALSE,
          static |-> static, dynamic |-> dynamic]
    ELSE [tried |-> <<"cache", "network">>, response |-> net, rejected |-> FALSE,
          static |-> IF net = "ok-200" THEN static \cup {request.url} ELSE static,
          dynamic |-> dynamic]

\* networkFirst without its try/catch: a rejected fetch rejects the handler
networkFirstNoCatch(request, static, dynamic, net) ==
    IF net = "fails"
    THEN [tried |-> <<"network">>, response |-> "none", rejected |-> TRUE,
          static |-> static, dynamic |-> dynamic]
    ELSE [tried |-> <<"network">>, response |-> net, rejected |-> FALSE,
          static |-> static,
          dynamic |-> IF net = "ok-200"
                      THEN LET kept == limitCacheSize(dynamic, DYNAMIC_CACHE_LIMIT)
                           IN  IF \E k \in 1..Len(kept) : kept[k] = request.url
                               THEN kept ELSE Append(kept, request.url)
                      ELSE dynamic]

\* networkFirst(request)
networkFirst(request, static, dynamic, net) ==
    IF net = "fails"
    THEN \* catch: the cached response, else 'Offline'
         [tried |-> <<"network", "cache">>,
          response |-> IF CacheMatch(static, dynamic, request.url)
                       THEN "cached" ELSE "offline-503",
          rejected |-> FALSE,
          static |-> static, dynamic |-> dynamic]
    ELSE [tried |-> <<"network">>, response |-> net, rejected |-> FALSE,
          static |-> static,
          dynamic |-> IF net = "ok-200"
                      THEN LET kept == limitCacheSize(dynamic, DYNAMIC_CACHE_LIMIT)
                           IN  IF \E k \in 1..Len(kept) : kept[k] = request.url
                               THEN kept ELSE Append(kept, request.url)
                      ELSE dynamic]

\* the fetch listener: which handler answers a request ("none": the worker
\* returns without respondWith and the browser handles the request)
Route(url) ==
    IF ~StartsWithHttp(url) THEN "none"
    ELSE IF isStaticFile(url) THEN "cacheFirst"
    ELSE IF isFirebaseRequest(url) THEN "networkFirst"
    ELSE IF isAPIRequest(url) THEN "networkFirst"
    ELSE "cacheFirst"

InitSw ==
    /\ db = TRUE
    /\ PageIdle
    /\ ScIdle
    /\ ColIdle
    /\ FcIdle
    /\ DtIdle
    /\ SwIdle

\* the install event: cache.addAll(STATIC_FILES) stores every file, or
\* nothing when one of the requests fails
SwInstall ==
    /\ \E ok \in BOOLEAN :
          swStatic' = IF ok THEN swStatic \cup InstallUrls ELSE swStatic
    /\ swLast' = NoFetchEvent
    /\ UNCHANGED swDynamic
    /\ UNCHANGED notSwVars

\* the history record of one fetch event: the request, the state of the
\* network and of the caches when it arrived, and how it was answered
FetchEventRecord(request, strategy, net, out) ==
    [called |-> TRUE, request |-> request.name, kind |-> request.kind,
     destination |-> request.destination, strategy |-> strategy, net |-> net,
     wasCached |-> CacheMatch(swStatic, swDynamic, request.url),
     indexCached |-> CacheMatch(swStatic, swDynamic, IndexUrl),
     tried |-> out.tried, response |-> out.response, rejected |-> out.rejected]

\* a fetch event, answered to its end
SwFetch ==
    /\ \E request \in SwRequests, net \in NetOutcomes :
          LET strategy == Route(request.url)
              out == IF strategy = "cacheFirst"
                     THEN cacheFirst(request, swStatic, swDynamic, net)
                     ELSE IF strategy = "networkFirst"
                     THEN networkFirst(request, swStatic, swDynamic, net)
                     ELSE [tried |-> <<>>, response |-> "none", rejected |-> FALSE,
                           static |-> swStatic, dynamic |-> swDynamic]
          IN  /\ swStatic' = out.static
              /\ swDynamic' = out.dynamic
              /\ swLast' = FetchEventRecord(request, strategy, net, out)
    /\ UNCHANGED notSwVars

NextSw ==
    \/ SwInstall
    \/ SwFetch

SpecSw == InitSw /\ [][NextSw]_vars

(***************************************************************************)
(* The two handlers of the service worker called directly (sw.js)          *)
(***************************************************************************)
\* the requests handed to the handlers: the page, /index.html and a
\* Firestore call
HandlerRequests == {r \in SwRequests : r.name \in {"page", "index", "firestore"}}

\* event.respondWith(cacheFirst(request))
HandlerCacheFirst ==
    /\ \E request \in HandlerRequests, net \in NetOutcomes :
          LET out == cacheFirst(request, swStatic, swDynamic, net)
          IN  /\ swStatic' = out.static
              /\ swDynamic' = out.dynamic
              /\ swLast' = FetchEventRecord(request, "cacheFirst", net, out)
    /\ UNCHANGED notSwVars

\* event.respondWith(networkFirst(request))
HandlerNetworkFirst ==
    /\ \E request \in HandlerRequests, net \in NetOutcomes :
          LET out == networkFirst(request, swStatic, swDynamic, net)
          IN  /\ swStatic' = out.static
              /\ swDynamic' = out.dynamic
              /\ swLast' = FetchEventRecord(request, "networkFirst", net, out)
    /\ UNCHANGED notSwVars

NextHandlers ==
    \/ SwInstall
    \/ HandlerCacheFirst
    \/ HandlerNetworkFirst

SpecHandlers == InitSw /\ [][NextHandlers]_vars

(***************************************************************************)
(* Properties of the persistence facade                                    *)
(***************************************************************************)
\* C1: saveDailyData never raises and resolves to a boolean: true when the
\* remote write succeeds or the local write succeeds, false exactly when the
\* remote is uninitialized or throws and the local write throws too
C1_SaveResolvesBoolean ==
    lastSave.called =>
        /\ ~lastSave.raised
        /\ lastSave.result \in BOOLEAN
        /\ lastSave.result =
              (\/ lastSave.remoteState = "succeeds"
               \/ (lastSave.remoteState \in {"uninitialized", "throws"}
                   /\ lastSave.localState = "succeeds"))

\* a call in which the remote write throws and the local write throws too
C1_BothFailWitness ==
    /\ lastSave.called
    /\ lastSave.remoteState = "throws"
    /\ lastSave.localState = "throws"
    /\ ~lastSave.result

\* the records a fetchAllData issued in the current state can return for a date
FetchedRecords(date) ==
    {r \in UNION {
              {fetchAllData(remote, local, localKeys, db, remoteOk, localOk).data[k] :
                 k \in 1..Len(fetchAllData(remote, local, localKeys, db, remoteOk, localOk).data)} :
              remoteOk \in BOOLEAN, localOk \in BOOLEAN} :
       r.date = date}

\* C2: after a saveDailyData that resolved to true, a following fetchAllData
\* returns a record for that date with the score, color and phases passed to
\* saveDailyData
C2_RoundTrip ==
    (lastSave.called /\ lastSave.result) =>
        \E r \in FetchedRecords(lastSave.date) :
            /\ r.score = lastSave.score
            /\ r.color = lastSave.color
            /\ r.hasPhases = lastSave.hasPhases
            /\ r.phases = lastSave.phases

\* C3: when the remote write throws and the call falls back to the local
\* backend, the record stored locally is the record the remote write would
\* have stored
C3_FallbackTransparent ==
    (lastSave.called /\ lastSave.remoteState = "throws"
       /\ lastSave.localState = "succeeds") =>
        /\ lastSave.date \in DOMAIN local
        /\ local[lastSave.date] =
              DataEntry(lastSave.date, lastSave.weekday, lastSave.score,
                        lastSave.color, lastSave.hasPhases, lastSave.phases)

(***************************************************************************)
(* Properties of the stored day records                                    *)
(***************************************************************************)
\* the phases successful generate actions have submitted on a date
SavedOn(date) == IF date \in DOMAIN saved THEN saved[date] ELSE {}

\* C4: when no backend operation has failed and no handler is running, some
\* backend holds, for every date, a record whose phases map contains every
\* phase submitted on that date and whose score is the score of that map
C4_ScoresAccumulate ==
    (pc = "idle" /\ lock.state = "none" /\ faults = 0) =>
        \A d \in DOMAIN saved :
            \E store \in {remote, local} :
                /\ d \in DOMAIN store
                /\ store[d].hasPhases
                /\ saved[d] \subseteq DOMAIN store[d].phases
                /\ store[d].score = calculateScoreFromPhaseObjects(store[d].phases)

\* every locked phase record of `before` is in `after`, unchanged
LockedKept(before, after) ==
    \A d \in DOMAIN before :
        \A i \in DOMAIN before[d].phases :
            before[d].phases[i].locked =>
                /\ d \in DOMAIN after
                /\ i \in DOMAIN after[d].phases
                /\ after[d].phases[i] = before[d].phases[i]

\* C5: the write of savePhaseData leaves the locked phase records that
\* earlier generate actions stored as they were (status, productivity and
\* timestamp)
C5_LockedNeverOverwritten ==
    [][pc = "gen_save" => (LockedKept(remote, remote') /\ LockedKept(local, local'))]_vars

\* C6: when no backend operation has failed, a page load ends with the
\* dropdowns of every phase saved today disabled
C6_LockedUntilNextDay ==
    [][(pc = "load_today" /\ pc' = "idle" /\ faults' = 0) =>
          \A i \in SavedOn(formatDate(now)) :
              controls'[i].statusDisabled /\ controls'[i].productivityDisabled]_vars

\* C7: every stored record has the score of its own phases map (0 when it
\* has none)
C7_ScoreIsFunctionOfPhases ==
    \A store \in {remote, local} :
        \A d \in DOMAIN store :
            store[d].score = calculateScoreFromPhaseObjects(store[d].phases)

\* C8: every stored record has the color getColorForScore gives its score
C8_ColorIsFunctionOfScore ==
    \A store \in {remote, local} :
        \A d \in DOMAIN store :
            store[d].color = getColorForScore(store[d].score)

\* both backends hold a record with a positive score, one written by
\* savePhaseData and one written by updateHeatmapColor
C8_BothWritersWitness ==
    \E d \in DOMAIN remote, e \in DOMAIN local :
        /\ remote[d].score > 0
        /\ local[e].score > 0
        /\ remote[d].hasPhases # local[e].hasPhases

C10_FailedContributesZero ==
    (scCount > 0 /\ scPhase.status = "failed") =>
        /\ scLastData = 0
        /\ scLastObjects = 0

\* a failed phase rated highly productive has been scored
C10_FailedProductiveWitness ==
    /\ scCount > 0
    /\ scPhase.status = "failed"
    /\ scPhase.productivity = "highly-productive"

\* C11: a phase whose status is empty or is none of the four known values
\* adds 0 to the score in both scoring functions, whatever its productivity
C11_UnknownStatusContributesZero ==
    (scCount > 0 /\ scPhase.status \notin DOMAIN SCORING_status) =>
        /\ scLastData = 0
        /\ scLastObjects = 0

\* the bucket the color table gives a score: 0 for score 0, then one bucket
\* for every 20 points
ColorBucket(score) == IF score = 0 THEN 0 ELSE ((score - 1) \div 20) + 1

\* C12: getColorForScore gives every score of 0..100 a color: the neutral
\* color for 0, then the five greens for 1..20, 21..40, 41..60, 61..80 and
\* 81..100, and two scores have the same color exactly when they are in the
\* same bucket, so the six colors are distinct
C12_ColorBuckets ==
    colColor # "none" =>
        /\ colColor = CASE colScore = 0 -> "#f0f0f0"
                        [] colScore \in 1..20 -> COLOR_MAPPING[0]
                        [] colScore \in 21..40 -> COLOR_MAPPING[20]
                        [] colScore \in 41..60 -> COLOR_MAPPING[40]
                        [] colScore \in 61..80 -> COLOR_MAPPING[60]
                        [] colScore \in 81..100 -> COLOR_MAPPING[80]
        /\ \A other \in 0..MaxScore :
              (getColorForScore(other) = colColor)
                  <=> (ColorBucket(other) = ColorBucket(colScore))

\* the score 21 has been coloured, and differently from 20
C12_BoundaryWitness ==
    /\ colScore = 21
    /\ colColor = COLOR_MAPPING[20]
    /\ colColor # getColorForScore(20)

\* C13: fetchAllData does not raise; the array it returns is in descending
\* order of date whatever the order of the writes; and it is empty when the
\* remote read is not made or throws and the local store is empty or its
\* read throws
C13_FetchSortedNeverRaises ==
    lastFetch.called =>
        /\ ~lastFetch.raised
        /\ \A j \in 1..Len(lastFetch.data), k \in 1..Len(lastFetch.data) :
              j < k => lastFetch.data[j].date > lastFetch.data[k].date
        /\ (lastFetch.remoteState # "succeeds"
            /\ (local = EmptyStore \/ lastFetch.localState = "throws"))
              => lastFetch.data = <<>>

\* the local store got the earlier date first, the remote read threw and
\* the fallback returned both records
C13_OutOfOrderWitness ==
    /\ lastFetch.called
    /\ lastFetch.remoteState = "throws"
    /\ Len(localKeys) = 2
    /\ localKeys[1] < localKeys[2]
    /\ Len(lastFetch.data) = 2

\* C15: after a saveDailyData that resolved to true, the next fetchAllData
\* returns a record for the date written that has the score and the color
\* just written, whichever remote operations throw
C15_ReadAfterWrite ==
    (lastSave.called /\ lastSave.result /\ lastFetch.called) =>
        \E k \in 1..Len(lastFetch.data) :
            /\ lastFetch.data[k].date = lastSave.date
            /\ lastFetch.data[k].score = lastSave.score
            /\ lastFetch.data[k].color = lastSave.color

\* C18: db keeps the value it got at startup; when it is unset every
\* saveDailyData and fetchAllData call makes one local attempt and no remote
\* attempt; and whatever the backends do, a call makes at most one remote
\* and at most one local attempt
C18_LocalOnlyWithoutDbNoRetry ==
    /\ [](/\ lastSave.called =>
               /\ lastSave.remoteAttempts <= 1
               /\ lastSave.localAttempts <= 1
               /\ ~db => (/\ lastSave.remoteState = "uninitialized"
                          /\ lastSave.remoteAttempts = 0
                          /\ lastSave.localAttempts = 1)
          /\ lastFetch.called =>
               /\ lastFetch.remoteAttempts <= 1
               /\ lastFetch.localAttempts <= 1
               /\ ~db => (/\ lastFetch.remoteState = "uninitialized"
                          /\ lastFetch.remoteAttempts = 0
                          /\ lastFetch.localAttempts = 1))
    /\ [][db' = db]_vars

\* with db unset, a save and then a fetch have been made
C18_LocalOnlyWitness ==
    /\ ~db
    /\ lastSave.called
    /\ lastSave.localAttempts = 1
    /\ lastFetch.called
    /\ lastFetch.localAttempts = 1

(***************************************************************************)
(* Properties of the generate action                                       *)
(***************************************************************************)
\* C14: a click on the generate button while every status dropdown is empty
\* is rejected before any I/O: the handler does not go on to its fetch or
\* its save, no facade call is made and both stores stay as they are
C14_EmptySubmissionRejected ==
    [][(/\ pc = "idle"
        /\ lock.state = "none"
        /\ ~buttonDisabled
        /\ \A i \in Phases : controls[i].status = ""
        /\ controls' = controls
        /\ now' = now
        /\ pc' # "load_heatmap")
       => (/\ pc' = "idle"
           /\ gen' = NoGen
           /\ remote' = remote
           /\ local' = local
           /\ localKeys' = localKeys
           /\ lastSave' = lastSave
           /\ heatmapData' = heatmapData
           /\ faults' = faults
           /\ generates' = generates)]_vars

\* the button is enabled while every status dropdown is empty: the finally
\* block of an earlier generate enabled it after the user had cleared the
\* form
C14_EmptyClickWitness ==
    /\ pc = "idle"
    /\ lock.state = "none"
    /\ ~buttonDisabled
    /\ generates > 0
    /\ \A i \in Phases : controls[i].status = ""

\* C16: while handleGenerateClick is between its start and its finally block
\* the generate button is disabled, whatever other events are dispatched
\* in between
C16_ButtonDisabledInFlight ==
    pc \in {"gen_fetch", "gen_save", "gen_update", "gen_reload"} => buttonDisabled

\* C17: when the save of savePhaseData finds the remote backend unset or
\* throwing and the local backend throwing, it resolves to false, no record
\* of either store changes, the handler ends without its second write, and
\* no control is locked
C17_TotalFailureCommitsNothing ==
    [][(/\ pc = "gen_save"
        /\ pc' # "gen_save"
        /\ lastSave'.remoteState # "succeeds"
        /\ lastSave'.localState = "throws")
       => (/\ lastSave'.called
           /\ ~lastSave'.result
           /\ remote' = remote
           /\ local' = local
           /\ localKeys' = localKeys
           /\ saved' = saved
           /\ pc' = "idle"
           /\ lock.state = "none"
           /\ lock' = lock
           /\ controls' = controls)]_vars

\* a generate action has ended on a save that failed on both backends
C17_BothFailedWitness ==
    /\ pc = "idle"
    /\ generates > 0
    /\ lastSave.called
    /\ lastSave.hasPhases
    /\ lastSave.remoteState = "throws"
    /\ lastSave.localState = "throws"
    /\ ~lastSave.result

(***************************************************************************)
(* Properties of the date key                                              *)
(***************************************************************************)
\* the calendar day of an instant on a clock that is offset from UTC
LocalDay(t, offset) == (t + offset) \div 2

\* C19: the date key computed for an instant is the calendar day of that
\* instant in the client's time zone, and the weekday computed for the same
\* instant is the weekday of the day the key names
C19_KeyIsLocalDay ==
    dtStamp.called =>
        /\ dtStamp.date = LocalDay(dtNow, dtTz)
        /\ dtStamp.weekday = Weekdays[(dtStamp.date % 7) + 1]

(***************************************************************************)
(* Properties of the service worker                                        *)
(***************************************************************************)
\* C20: a request for a static asset is answered by cacheFirst, the cache
\* being asked first; a request to Firestore or to an /api/ endpoint is
\* answered by networkFirst, the network being asked before any cache
C20_RoutedByKind ==
    swLast.called =>
        /\ swLast.kind = "static" =>
              /\ swLast.strategy = "cacheFirst"
              /\ Head(swLast.tried) = "cache"
        /\ swLast.kind \in {"remote-store", "api"} =>
              /\ swLast.strategy = "networkFirst"
              /\ Head(swLast.tried) = "network"

(***************************************************************************)
(* Properties of the phase locking                                         *)
(***************************************************************************)
\* C21: once the first successful generate action and the lockSavedPhases
\* call it started have both finished, with no backend operation having
\* failed, the status and productivity dropdowns of every phase it
\* submitted are disabled
C21_SubmittedPhasesLocked ==
    [][(/\ pc = "gen_reload" \/ lock.state = "pending"
        /\ pc' = "idle"
        /\ lock'.state = "none"
        /\ generates = 1
        /\ faults' = 0)
       => \A d \in DOMAIN saved :
             \A i \in saved[d] :
                 controls'[i].statusDisabled /\ controls'[i].productivityDisabled]_vars

(***************************************************************************)
(* Properties of the two scoring functions together                        *)
(***************************************************************************)
\* C22: over every collection of up to NumPhases phases whose status and
\* productivity are known, unknown, empty or missing, each phase adds the
\* same to both scoring functions and both return the same score
C22_ScoringFunctionsAgree ==
    /\ scLastData = scLastObjects
    /\ scTotalData = scTotalObjects
    /\ scResultData = scResultObjects

\* a phase with an unknown status and a missing productivity has been
\* scored after one that added points
C22_UnknownMissingWitness ==
    /\ scCount > 1
    /\ scPhase.status = UnknownValue
    /\ scPhase.productivity = MissingValue
    /\ scTotalData > 0

(***************************************************************************)
(* Properties of the handlers of the service worker                        *)
(***************************************************************************)
\* C23: cacheFirst and networkFirst resolve with a response and do not
\* reject.  cacheFirst answers with the cached response when there is one,
\* else with the network response, else (the network failing) with the
\* cached /index.html for a document request that finds it and with the 503
\* 'Offline' response otherwise.  networkFirst answers with the network
\* response, else (the network failing) with the cached response when
\* there is one and with the 503 'Offline' response otherwise
C23_HandlersAlwaysRespond ==
    swLast.called =>
        /\ ~swLast.rejected
        /\ swLast.response # "none"
        /\ swLast.strategy = "cacheFirst" =>
              swLast.response =
                 IF swLast.wasCached THEN "cached"
                 ELSE IF swLast.net # "fails" THEN swLast.net
                 ELSE IF swLast.destination = "document" /\ swLast.indexCached
                 THEN "cached-index"
                 ELSE "offline-503"
        /\ swLast.strategy = "networkFirst" =>
              swLast.response =
                 IF swLast.net # "fails" THEN swLast.net
                 ELSE IF swLast.wasCached THEN "cached"
                 ELSE "offline-503"

\* networkFirst has answered a failed fetch from the cache
C23_StaleFromCacheWitness ==
    /\ swLast.called
    /\ swLast.strategy = "networkFirst"
    /\ swLast.net = "fails"
    /\ swLast.wasCached
    /\ swLast.response = "cached"

====
